---- MODULE Spec2Model ----
(***************************************************************************)
(* A model of js/todos.js: the Todo model, the TodoList collection, the    *)
(* TodoView item view and the AppView application view.                    *)
(*                                                                         *)
(* Strings are sequences of one-character strings, so that split, slice    *)
(* and join are computed the way the code computes them.  Values read from *)
(* the page (input.val(), textarea.val(), e.keyCode, new Date()) are       *)
(* inputs of the handler that reads them.                                  *)
(***************************************************************************)
EXTENDS Integers, Sequences, FiniteSets, TLC

VARIABLES
    todos,      \* Todos: the models of the collection, in collection order
    views,      \* the TodoView of each model, by the model's cid: its classes
    app,        \* App: main/footer visibility, footer statistics, #toggle-all
    nextCid,    \* the cid the next constructed model gets
    lastEvent,  \* the handler of the DOM event dispatched last and what it did
    text,       \* the string handed to sanitize
    results     \* what successive applications of sanitize returned

vars == <<todos, views, app, nextCid, lastEvent, text, results>>

----------------------------------------------------------------------------
(* Bounds and inputs *)

\* models constructed in one run of the application
MaxCreates == 3
\* models constructed in a run that only creates
MaxCreateSeq == 6
\* space-separated pieces of a text handed to sanitize
MaxTokens == 3
\* successive applications of sanitize to one text
MaxApplications == 2

\* createdAt/modifiedAt before they are set
Null == 0
\* the keyCode of the enter key
Enter == 13
\* the longest token sanitize lets through
MaxTokenLen == 30

\* fields in edit mode at one time, over all item views
MaxEditing == 1

KeyCodes == {Enter, 65}
\* what the new-todo input holds when a key is pressed in it
NewTitles == {<<>>, <<"a">>}
\* the same, in a run that only creates
SeqTitles == {<<>>, <<"a">>, <<"b">>}
\* what an item's title input holds when its edit is closed
EditTitles == {<<>>, <<"b">>}
\* what an item's notes textarea holds when its edit is closed
TaskInfos == {<<"a", " ", " ", "b">>}
\* new Date() in createOnEnter
CreatedDates == {1}
\* new Date() in close
ModifiedDates == {2}

DefaultTitle == <<"e", "m", "p", "t", "y", " ", "t", "o", "d", "o", ".", ".", ".">>

Rep(ch, n) == [i \in 1..n |-> ch]

----------------------------------------------------------------------------
(* TodoView.sanitize *)

\* taskInfo.split(" "): the pieces between single spaces, empty ones included;
\* a string with n spaces has n + 1 pieces
split(s) ==
    LET spaces == {i \in 1..Len(s) : s[i] = " "}
        \* the position of the k-th space; 0 and Len(s) + 1 bound the string
        pos(k) == IF k = 0 THEN 0
                  ELSE IF k > Cardinality(spaces) THEN Len(s) + 1
                  ELSE CHOOSE p \in spaces : Cardinality({q \in spaces : q < p}) = k - 1
    IN [k \in 1..Cardinality(spaces) + 1 |-> SubSeq(s, pos(k - 1) + 1, pos(k) - 1)]

\* element.slice(0, n)
slice(element, n) == SubSeq(element, 1, IF Len(element) < n THEN Len(element) ELSE n)

\* newTaskInfo.join(" ")
RECURSIVE join(_)
join(arr) ==
    IF Len(arr) = 0 THEN <<>>
    ELSE IF Len(arr) = 1 THEN arr[1]
    ELSE arr[1] \o <<" ">> \o join(Tail(arr))

\* the forEach callback applied from index i on, newTaskInfo being the pushes so far
RECURSIVE forEachElement(_, _, _)
forEachElement(taskInfoArray, i, newTaskInfo) ==
    IF i > Len(taskInfoArray) THEN newTaskInfo
    ELSE LET element == taskInfoArray[i] IN
         IF element # <<>>
         THEN forEachElement(taskInfoArray, i + 1,
                  Append(newTaskInfo,
                         IF Len(element) > MaxTokenLen
                         THEN slice(element, MaxTokenLen) ELSE element))
         ELSE forEachElement(taskInfoArray, i + 1, newTaskInfo)

\* a sanitizer that lets 31 characters of a long token through
RECURSIVE forEachElement_31(_, _, _)
forEachElement_31(taskInfoArray, i, newTaskInfo) ==
    IF i > Len(taskInfoArray) THEN newTaskInfo
    ELSE LET element == taskInfoArray[i] IN
         IF element # <<>>
         THEN forEachElement_31(taskInfoArray, i + 1,
                  Append(newTaskInfo, slice(element, MaxTokenLen + 1)))
         ELSE forEachElement_31(taskInfoArray, i + 1, newTaskInfo)

sanitize_31(taskInfo) == join(forEachElement_31(split(taskInfo), 1, <<>>))

\* a sanitizer that removes the empty elements from the array it is iterating
RECURSIVE spliceEmpty(_, _)
spliceEmpty(arr, i) ==
    IF i > Len(arr) THEN arr
    ELSE IF arr[i] = <<>>
         THEN spliceEmpty(SubSeq(arr, 1, i - 1) \o SubSeq(arr, i + 1, Len(arr)), i + 1)
         ELSE spliceEmpty([arr EXCEPT ![i] = slice(@, MaxTokenLen)], i + 1)

sanitize_splice(taskInfo) == join(spliceEmpty(split(taskInfo), 1))

sanitize(taskInfo) == join(forEachElement(split(taskInfo), 1, <<>>))

----------------------------------------------------------------------------
(* Todo and TodoList *)

\* Todos.done()
done(ts) == SelectSeq(ts, LAMBDA t : t.done = TRUE)

\* remaining() that filters nothing
remaining_all(ts) == ts

\* Todos.remaining()
remaining(ts) == SelectSeq(ts, LAMBDA t : t.done = FALSE)

\* Todos.last()
last(ts) == ts[Len(ts)]

\* nextOrder() from the number of models: this.length + 1
nextOrder_length(ts) == Len(ts) + 1

\* nextOrder() from the first model: this.first().get('order') + 1
nextOrder_first(ts) == IF Len(ts) = 0 THEN 1 ELSE ts[1].order + 1

\* nextOrder() without the increment
nextOrder_same(ts) == IF Len(ts) = 0 THEN 1 ELSE last(ts).order

\* Todos.nextOrder()
nextOrder(ts) == IF Len(ts) = 0 THEN 1 ELSE last(ts).order + 1

\* Todo.defaults(), for the model constructed with cid c
defaults(ts, c) ==
    [cid |-> c, title |-> DefaultTitle, order |-> nextOrder(ts), done |-> FALSE,
     createdAt |-> Null, modifiedAt |-> Null, taskInfo |-> <<>>]

\* model.set(attrs): attrs override the model's attributes
set(m, attrs) == [k \in DOMAIN m |-> IF k \in DOMAIN attrs THEN attrs[k] ELSE m[k]]

\* collection.add(m) under comparator 'order': m goes after the models whose
\* order is not greater than its own
add(ts, m) ==
    LET k == Cardinality({i \in 1..Len(ts) : ts[i].order <= m.order})
    IN SubSeq(ts, 1, k) \o <<m>> \o SubSeq(ts, k + 1, Len(ts))

\* the position in ts of the model with cid c
indexOf(ts, c) == CHOOSE i \in 1..Len(ts) : ts[i].cid = c

----------------------------------------------------------------------------
(* Rendering *)

\* TodoView.render: the item's markup and its 'done' class follow the model
TodoView_render(v, m) == [v EXCEPT !.done = m.done]

\* AppView.render handing the two counts to the template the wrong way round
AppView_render_swapped(ts, a) ==
    LET doneN == Len(SelectSeq(ts, LAMBDA t : t.done = TRUE))
        remainingN == Len(SelectSeq(ts, LAMBDA t : t.done = FALSE))
    IN IF Len(ts) # 0
       THEN [mainShown |-> TRUE, footerShown |-> TRUE,
             footerHtml |-> <<remainingN, doneN>>,
             allCheckbox |-> (remainingN = 0)]
       ELSE [mainShown |-> FALSE, footerShown |-> FALSE,
             footerHtml |-> a.footerHtml,
             allCheckbox |-> (remainingN = 0)]

\* AppView.render: recount, show or hide main and footer, set #toggle-all
AppView_render(ts, a) ==
    LET doneN == Len(done(ts))
        remainingN == Len(remaining(ts))
    IN IF Len(ts) # 0
       THEN [mainShown |-> TRUE, footerShown |-> TRUE,
             footerHtml |-> <<doneN, remainingN>>,
             allCheckbox |-> (remainingN = 0)]
       ELSE [mainShown |-> FALSE, footerShown |-> FALSE,
             footerHtml |-> a.footerHtml,
             allCheckbox |-> (remainingN = 0)]

\* AppView.addOne: a new TodoView for the model, rendered
addOne(vs, m) ==
    (m.cid :> TodoView_render([editing |-> FALSE, editingInfo |-> FALSE, done |-> FALSE], m))
        @@ vs

----------------------------------------------------------------------------
(* Model operations with the events they trigger.  w is the collection, the *)
(* item views and the application view: [todos, views, app].                *)

\* model.save(attrs): set, 'change' (TodoView.render) if an attribute changed,
\* then the collection's 'all' listener (AppView.render)
save(w, c, attrs) ==
    LET i == indexOf(w.todos, c)
        m == set(w.todos[i], attrs)
        ts == [w.todos EXCEPT ![i] = m]
    IN [todos |-> ts,
        views |-> IF m # w.todos[i]
                  THEN [w.views EXCEPT ![c] = TodoView_render(@, m)]
                  ELSE w.views,
        app |-> AppView_render(ts, w.app)]

\* model.destroy(): 'destroy' removes the model from the collection and the
\* view from the page, then AppView.render
destroy(w, c) ==
    LET ts == SelectSeq(w.todos, LAMBDA t : t.cid # c)
    IN [todos |-> ts,
        views |-> [d \in DOMAIN w.views \ {c} |-> w.views[d]],
        app |-> AppView_render(ts, w.app)]

\* Todos.create(attrs): construct with defaults, add ('add': addOne, render), save
create(w, c, attrs) ==
    LET m == set(defaults(w.todos, c), attrs)
        ts == add(w.todos, m)
    IN [todos |-> ts,
        views |-> addOne(w.views, m),
        app |-> AppView_render(ts, w.app)]

\* Todo.toggle
toggle(w, c) == save(w, c, [done |-> ~(w.todos[indexOf(w.todos, c)].done)])

\* _.invoke(models, 'destroy')
RECURSIVE invoke(_, _)
invoke(w, models) ==
    IF models = <<>> THEN w
    ELSE invoke(destroy(w, Head(models).cid), Tail(models))

\* Todos.each(function (todo) { todo.save({'done': d}) }), from index i on
RECURSIVE each(_, _, _)
each(w, i, d) ==
    IF i > Len(w.todos) THEN w
    ELSE each(save(w, w.todos[i].cid, [done |-> d]), i + 1, d)

\* close without the test for an empty title
close_save(w, c, value, taskInfo, modifiedDate) ==
    LET s == save(w, c, [title |-> value, modifiedAt |-> modifiedDate,
                         taskInfo |-> sanitize(taskInfo)])
    IN [s EXCEPT !.views[c].editing = FALSE, !.views[c].editingInfo = FALSE]

\* close without removeClass("editingInfo")
close_keepInfo(w, c, value, taskInfo, modifiedDate) ==
    IF value = <<>>
    THEN destroy(w, c)
    ELSE LET s == save(w, c, [title |-> value, modifiedAt |-> modifiedDate,
                              taskInfo |-> sanitize(taskInfo)])
         IN [s EXCEPT !.views[c].editing = FALSE]

\* TodoView.close on the view of c, the inputs holding value and taskInfo
close(w, c, value, taskInfo, modifiedDate) ==
    IF value = <<>>
    THEN destroy(w, c)
    ELSE LET s == save(w, c, [title |-> value, modifiedAt |-> modifiedDate,
                              taskInfo |-> sanitize(taskInfo)])
         IN [s EXCEPT !.views[c].editing = FALSE, !.views[c].editingInfo = FALSE]

\* TodoView.updateOnEnter: enter closes the edit, any other key changes nothing
updateOnEnter(w, c, keyCode, value, taskInfo, modifiedDate) ==
    IF keyCode = Enter THEN close(w, c, value, taskInfo, modifiedDate) ELSE w

\* TodoView.toggleDone
toggleDone(w, c) == toggle(w, c)

\* TodoView.edit
edit(w, c) == [w EXCEPT !.views[c].editing = TRUE]

\* TodoView.addInfo
addInfo(w, c) == [w EXCEPT !.views[c].editingInfo = TRUE]

\* TodoView.clear
clear(w, c) == destroy(w, c)

\* AppView.createOnEnter, the new-todo input holding val; c is the new model's cid
createOnEnter(w, c, keyCode, val, createdDate) ==
    IF keyCode # Enter THEN w
    ELSE IF val = <<>> THEN w
    ELSE create(w, c, [title |-> val, createdAt |-> createdDate,
                       modifiedAt |-> createdDate])

\* clearCompleted destroying only the first done model
clearCompleted_first(w) ==
    IF done(w.todos) = <<>> THEN w ELSE destroy(w, Head(done(w.todos)).cid)

\* AppView.clearCompleted
clearCompleted(w) == invoke(w, done(w.todos))

\* AppView.toggleAllComplete, the click having set #toggle-all to checked
toggleAllComplete(w, checked) ==
    each([w EXCEPT !.app.allCheckbox = checked], 1, checked)

----------------------------------------------------------------------------
(* The application: state after AppView.initialize on an empty store, and   *)
(* one action per entry of the two events tables.                           *)

World == [todos |-> todos, views |-> views, app |-> app]

\* the page before the first render: nothing shown, no statistics
blankApp == [mainShown |-> FALSE, footerShown |-> FALSE, footerHtml |-> <<>>,
             allCheckbox |-> FALSE]

\* what the handler h, dispatched on the view of c (0: the application view),
\* did: the edit modes of that view it ended and the number of models it destroyed
Event(h, c, w) ==
    [handler |-> h,
     editing |-> /\ c \in DOMAIN views
                 /\ views[c].editing
                 /\ c \in DOMAIN w.views => ~w.views[c].editing,
     editingInfo |-> /\ c \in DOMAIN views
                     /\ views[c].editingInfo
                     /\ c \in DOMAIN w.views => ~w.views[c].editingInfo,
     destroyed |-> IF Len(w.todos) < Len(todos) THEN Len(todos) - Len(w.todos) ELSE 0]

\* the handler h ran on c and left w
Dispatch(h, c, w) ==
    /\ todos' = w.todos
    /\ views' = w.views
    /\ app' = w.app
    /\ nextCid' = IF Len(w.todos) > Len(todos) THEN nextCid + 1 ELSE nextCid
    /\ lastEvent' = Event(h, c, w)
    /\ UNCHANGED <<text, results>>

\* the fields in edit mode
Editing ==
    {<<c, "edit">> : c \in {d \in DOMAIN views : views[d].editing}}
        \cup {<<c, "taskInfo">> : c \in {d \in DOMAIN views : views[d].editingInfo}}

InitApp ==
    /\ todos = <<>>
    /\ views = <<>>
    /\ app = AppView_render(<<>>, blankApp)
    /\ nextCid = 1
    /\ lastEvent = [handler |-> "initialize", editing |-> FALSE,
                    editingInfo |-> FALSE, destroyed |-> 0]

Init ==
    /\ InitApp
    /\ text = <<>>
    /\ results = <<>>

\* "keypress #new-todo"
keypress_new_todo(cap, titles) ==
    /\ nextCid <= cap
    /\ \E keyCode \in KeyCodes, val \in titles, createdDate \in CreatedDates :
           Dispatch("createOnEnter", 0,
                    createOnEnter(World, nextCid, keyCode, val, createdDate))

\* "click #clear-completed"
click_clear_completed == Dispatch("clearCompleted", 0, clearCompleted(World))

\* "click #toggle-all": the click flips the checkbox, then the handler runs
click_toggle_all ==
    Dispatch("toggleAllComplete", 0, toggleAllComplete(World, ~app.allCheckbox))

\* "click .toggle"
click_toggle(c) == Dispatch("toggleDone", c, toggleDone(World, c))

\* "dblclick .view"
dblclick_view(c) ==
    /\ Cardinality(Editing) < MaxEditing
    /\ Dispatch("edit", c, edit(World, c))

\* "dblclick .taskDescription", "click a.add"
click_add(c) ==
    /\ Cardinality(Editing) < MaxEditing
    /\ Dispatch("addInfo", c, addInfo(World, c))

\* "click a.destroy"
click_destroy(c) == Dispatch("clear", c, clear(World, c))

\* "keypress .edit", "keypress .taskInfo"
keypress_edit(c) ==
    \E keyCode \in KeyCodes, value \in EditTitles, taskInfo \in TaskInfos,
       modifiedDate \in ModifiedDates :
        Dispatch("updateOnEnter", c,
                 updateOnEnter(World, c, keyCode, value, taskInfo, modifiedDate))

\* "blur .edit", "blur .taskInfo"
blur_edit(c) ==
    \E value \in EditTitles, taskInfo \in TaskInfos, modifiedDate \in ModifiedDates :
        Dispatch("close", c, close(World, c, value, taskInfo, modifiedDate))

Next ==
    \/ keypress_new_todo(MaxCreates, NewTitles)
    \/ click_clear_completed
    \/ click_toggle_all
    \/ \E c \in DOMAIN views : click_toggle(c)
    \/ \E c \in DOMAIN views : dblclick_view(c)
    \/ \E c \in DOMAIN views : click_add(c)
    \/ \E c \in DOMAIN views : click_destroy(c)
    \/ \E c \in DOMAIN views : keypress_edit(c)
    \/ \E c \in DOMAIN views : blur_edit(c)

Spec == Init /\ [][Next]_vars

\* a run that only creates
NextCreates == keypress_new_todo(MaxCreateSeq, SeqTitles)

SpecCreates == Init /\ [][NextCreates]_vars

----------------------------------------------------------------------------
(* sanitize applied to a text, and again to what it returned *)

Pieces ==
    {<<>>, <<"a">>, Rep("a", MaxTokenLen), Rep("a", MaxTokenLen) \o <<"b">>,
     <<"b">> \o Rep("a", MaxTokenLen)}

\* the texts of at most MaxTokens pieces with single spaces between them
SanInputs == {join(ps) : ps \in UNION {[1..n -> Pieces] : n \in 0..MaxTokens}}

InitSanitize ==
    /\ InitApp
    /\ text \in SanInputs
    /\ results = <<>>

applySanitize ==
    /\ Len(results) < MaxApplications
    /\ results' = Append(results,
                         sanitize(IF results = <<>> THEN text ELSE results[Len(results)]))
    /\ UNCHANGED <<todos, views, app, nextCid, lastEvent, text>>

NextSanitize == applySanitize

SpecSanitize == InitSanitize /\ [][NextSanitize]_vars

----------------------------------------------------------------------------
(* Properties *)

Range(f) == {f[i] : i \in DOMAIN f}

\* the number of models of ts whose done is d
count(ts, d) == Cardinality({i \in 1..Len(ts) : ts[i].done = d})

\* the greatest order among the models of ts
maxOrder(ts) ==
    CHOOSE o \in {ts[i].order : i \in 1..Len(ts)} :
        \A i \in 1..Len(ts) : ts[i].order <= o

\* the pieces of s between single spaces that are not empty
tokens(s) == SelectSeq(split(s), LAMBDA e : e # <<>>)

\* C1: every item's order is a positive integer, no two items of the
\* collection have the same order, and an item inserted later (greater cid)
\* has a strictly greater order than every earlier item still in the collection.
OrderInvariant ==
    /\ \A i \in 1..Len(todos) : todos[i].order \in Nat /\ todos[i].order >= 1
    /\ \A i, j \in 1..Len(todos) : i # j => todos[i].order # todos[j].order
    /\ \A i, j \in 1..Len(todos) :
           todos[i].cid < todos[j].cid => todos[i].order < todos[j].order

\* two items are in the collection and an order freed by a delete was given again
OrderWitness ==
    /\ Len(todos) = 2
    /\ \E i \in 1..Len(todos) : todos[i].order < todos[i].cid

\* C2: a newly created item gets order 1 in an empty collection and otherwise
\* (the maximum order in the collection) + 1, which is (the order of the last
\* item) + 1, whatever creates and deletes came before; its done is false.
CreateOrder ==
    [][nextCid' # nextCid =>
         LET new == todos'[indexOf(todos', nextCid)]
         IN /\ Len(todos) = 0 => new.order = 1
            /\ Len(todos) # 0 => /\ new.order = maxOrder(todos) + 1
                                 /\ new.order = todos[Len(todos)].order + 1
            /\ new.done = FALSE
            /\ Range(todos') = Range(todos) \cup {new}]_vars

\* the third model was created after a delete, next to one remaining item
CreateWitness ==
    /\ lastEvent.handler = "createOnEnter"
    /\ nextCid = 4
    /\ Len(todos) = 2
    /\ todos[2].cid = 3
    /\ todos[2].order = todos[1].order + 1
    /\ todos[2].done = FALSE

\* C3: over a sequence of creates, nextOrder() after each create is strictly
\* greater than before it and greater than every order handed out so far.
NextOrderIncreases ==
    [][todos' # todos =>
         /\ nextOrder(todos') > nextOrder(todos)
         /\ \A i \in 1..Len(todos') : todos'[i].order < nextOrder(todos')
         /\ \A i \in 1..Len(todos) : todos'[Len(todos')].order > todos[i].order]_vars

\* three creates handed out 1, 2, 3 and the next value is 4
NextOrderWitness ==
    /\ Len(todos) = 3
    /\ \A i \in 1..3 : todos[i].order = i
    /\ nextOrder(todos) = 4

\* C4: the sizes of done() and remaining() add up to the size of the collection.
DonePlusRemaining == Len(done(todos)) + Len(remaining(todos)) = Len(todos)

\* two items were created and one of them was toggled: one done, one remaining
DonePlusRemainingWitness ==
    /\ lastEvent.handler = "toggleDone"
    /\ nextCid = 3
    /\ Len(todos) = 2
    /\ Len(done(todos)) = 1
    /\ Len(remaining(todos)) = 1

\* C5: "clear completed" removes exactly the items whose done is true and keeps
\* every item whose done is false, unchanged and in order; done() is empty after.
ClearCompletedExact ==
    [][click_clear_completed =>
         /\ \A i \in 1..Len(todos) :
                todos[i].done <=> todos[i] \notin Range(todos')
         /\ Range(todos') \subseteq Range(todos)
         /\ Len(todos') = count(todos, FALSE)
         /\ \A i \in 1..Len(todos') : todos'[i].done = FALSE
         /\ DOMAIN views' = {todos'[i].cid : i \in 1..Len(todos')}]_vars

\* "clear completed" ran on 2 done items and 1 remaining one, which is what is left
ClearCompletedWitness ==
    /\ lastEvent.handler = "clearCompleted"
    /\ lastEvent.destroyed = 2
    /\ Len(todos) = 1
    /\ todos[1].done = FALSE

\* C6: closing an edit (enter or blur, whichever field is in edit mode) with an
\* empty title input removes that item and changes no other item.
EmptyTitleRemoves ==
    [][lastEvent'.handler \in {"close", "updateOnEnter"} =>
         \A c \in DOMAIN views, taskInfo \in TaskInfos, modifiedDate \in ModifiedDates :
             LET w == close(World, c, <<>>, taskInfo, modifiedDate)
             IN (Dispatch("close", c, w) \/ Dispatch("updateOnEnter", c, w))
                => /\ todos' = SelectSeq(todos, LAMBDA t : t.cid # c)
                   /\ c \notin DOMAIN views'
                   /\ Len(todos') = Len(todos) - 1]_vars

\* an edit of the notes was closed with an empty title, the item is gone and
\* another item is still there
EmptyTitleWitness ==
    /\ lastEvent.handler \in {"close", "updateOnEnter"}
    /\ lastEvent.editingInfo
    /\ lastEvent.destroyed = 1
    /\ Len(todos) >= 1

\* C9: closing an edit (enter or blur) of a view in edit mode with a non-empty
\* title leaves neither editing class set, sets title to the entered title,
\* taskInfo to the sanitized notes and modifiedAt to the date, and leaves
\* order, done and createdAt as they were.
CloseCommits ==
    [][lastEvent'.handler \in {"close", "updateOnEnter"} =>
         \A c \in {d \in DOMAIN views : views[d].editing \/ views[d].editingInfo},
            value \in EditTitles \ {<<>>}, taskInfo \in TaskInfos,
            modifiedDate \in ModifiedDates :
             LET w == close(World, c, value, taskInfo, modifiedDate)
             IN (Dispatch("close", c, w) \/ Dispatch("updateOnEnter", c, w))
                => LET old == todos[indexOf(todos, c)]
                   IN /\ c \in DOMAIN views'
                      /\ ~views'[c].editing
                      /\ ~views'[c].editingInfo
                      /\ Len(todos') = Len(todos)
                      /\ LET new == todos'[indexOf(todos', c)]
                         IN /\ new.title = value
                            /\ new.taskInfo = sanitize(taskInfo)
                            /\ new.modifiedAt = modifiedDate
                            /\ new.order = old.order
                            /\ new.done = old.done
                            /\ new.createdAt = old.createdAt
                            /\ new.cid = old.cid]_vars

\* an edit of the title was closed on a done item: the view is back to viewing
\* and the item carries the new title, the sanitized notes and the stamp
CloseCommitsWitness ==
    /\ lastEvent.handler \in {"close", "updateOnEnter"}
    /\ lastEvent.editing
    /\ lastEvent.destroyed = 0
    /\ \E i \in 1..Len(todos) :
           /\ todos[i].title = <<"b">>
           /\ todos[i].taskInfo = <<"a", " ", "b">>
           /\ todos[i].modifiedAt = 2
           /\ todos[i].createdAt = 1
           /\ todos[i].done
    /\ \A c \in DOMAIN views : ~views[c].editing /\ ~views[c].editingInfo

\* C10: after every change of the collection the footer is recounted: if the
\* collection is not empty the displayed numbers are the sizes of done() and
\* remaining(), and "mark all" is checked exactly when no item remains undone.
FooterRecounted ==
    [][todos' # todos =>
         /\ Len(todos') # 0 =>
                /\ app'.footerHtml = <<count(todos', TRUE), count(todos', FALSE)>>
                /\ app'.footerShown
                /\ app'.mainShown
         /\ app'.allCheckbox <=> (count(todos', FALSE) = 0)]_vars

\* "mark all" was clicked with items undone: all three are done and shown so
FooterWitness ==
    /\ lastEvent.handler = "toggleAllComplete"
    /\ Len(todos) = 3
    /\ app.footerHtml = <<3, 0>>
    /\ app.allCheckbox

\* C7: sanitize applied to its own result returns that result.
Idempotent == \A k \in 2..Len(results) : results[k] = results[k - 1]

\* sanitize was applied twice to a text that it changes and does not empty
IdempotentWitness ==
    /\ Len(results) = 2
    /\ results[1] # text
    /\ results[1] # <<>>

\* C8 as stated: the result, split on single spaces, has no token longer than
\* 30 characters and no empty token; the tokens are the non-empty pieces of the
\* input, in order, each cut to its first 30 characters.
TokensBoundedAlways ==
    results # <<>> =>
        LET out == split(results[1])
            inp == tokens(text)
        IN /\ \A k \in 1..Len(out) : Len(out[k]) >= 1 /\ Len(out[k]) <= 30
           /\ Len(out) = Len(inp)
           /\ \A k \in 1..Len(out) :
                  out[k] = SubSeq(inp[k], 1, IF Len(inp[k]) > 30 THEN 30 ELSE Len(inp[k]))

\* C8 amended: the result is the empty string when the input has no non-empty
\* piece (and then splits into one empty token); otherwise the result, split on
\* single spaces, has no token longer than 30 characters and no empty token,
\* and its tokens are the non-empty pieces of the input, in order, each cut to
\* its first 30 characters.
TokensBounded ==
    results # <<>> =>
        LET out == split(results[1])
            inp == tokens(text)
        IN IF inp = <<>>
           THEN results[1] = <<>> /\ out = << <<>> >>
           ELSE /\ \A k \in 1..Len(out) : Len(out[k]) >= 1 /\ Len(out[k]) <= 30
                /\ Len(out) = Len(inp)
                /\ \A k \in 1..Len(out) :
                       out[k] = SubSeq(inp[k], 1, IF Len(inp[k]) > 30 THEN 30 ELSE Len(inp[k]))

\* a text with an empty piece and a piece of 31 characters was sanitized
TokensBoundedWitness ==
    /\ results # <<>>
    /\ \E k \in 1..Len(split(text)) : split(text)[k] = <<>>
    /\ \E k \in 1..Len(split(text)) : Len(split(text)[k]) = 31
    /\ \E k \in 1..Len(split(results[1])) : Len(split(results[1])[k]) = 30
    /\ Len(split(results[1])) = 2

====
